---- MODULE Spec2Model ----
(***************************************************************************)
(* Franka-Teach: the teleoperation control loop (FrankaOperator,           *)
(* frankateach/teleoperator.py) and the actuated environment (FrankaEnv,   *)
(* franka_env/envs/franka_env.py), as one state machine.                   *)
(*                                                                         *)
(* Numbers are integers.  Trigger axes are in tenths (0.5 is 5); lengths   *)
(* are in units of the workspace grid.  Rotations are the half turns about *)
(* the coordinate axes, whose matrices and quaternions are integral, and   *)
(* the calibration matrices are signed permutations, so that every matrix  *)
(* product, inverse and quaternion conversion below is exact.              *)
(* An optional value (Python None, or an attribute not yet assigned) is a  *)
(* sequence of length 0; a present value x is <<x>>.                       *)
(* FrankaAction.timestamp (time.time()) is not modelled.                   *)
(***************************************************************************)
EXTENDS Integers, Sequences, FiniteSets, TLC

VARIABLES
    prog,               \* which program runs: teleoperator.main or an env client
    pc,                 \* FrankaOperator.stream: the position of the process
    exc,                \* the exception stream() is unwinding with
    is_first_frame,     \* FrankaOperator.is_first_frame
    gripper_state,      \* FrankaOperator.gripper_state
    start_teleop,       \* FrankaOperator.start_teleop
    init_affine,        \* FrankaOperator.init_affine (optional)
    home_rot,           \* FrankaOperator.home_rot (optional: set on first frame)
    home_pos,           \* FrankaOperator.home_pos (optional: set on first frame)
    controller_state,   \* FrankaOperator.controller_state (optional)
    inflight,           \* FrankaOperator.socket: requests sent, reply not received
    released,           \* how often each resource of stream() has been released
    reset_sent,         \* number of reset=True actions sent so far
    action_sent,        \* whether a reset=False action has been sent so far
    state_reads,        \* robot-state reads made in the current tick
    was_engaged,        \* start_teleop when the current tick began
    prev_trigger,       \* the trigger axes of the previous tick's sample (optional)
    e_pc,               \* FrankaEnv: the position of the client's current call
    e_cfg,              \* FrankaEnv: use_robot, sensor_type as constructed
    e_inflight,         \* FrankaEnv.action_request_socket: requests awaiting reply
    e_franka_state,     \* FrankaEnv.franka_state (optional)
    e_curr_images,      \* FrankaEnv.curr_images (optional)
    e_error,            \* the exception the last FrankaEnv call raised, or "none"
    e_call,             \* FrankaEnv: the client's current or last call
    e_ret,              \* FrankaEnv: what the last call returned
    e_frames,           \* the frames the cameras gave the last reset() or step()
    e_sensor_baseline,  \* FrankaEnv.sensor_baseline (optional)
    e_sensor_prev_state, \* FrankaEnv.sensor_prev_state (optional)
    e_reskin_state,     \* what the last _get_reskin_state call returned (optional)
    a_pc,               \* get_relative_affine: the position of a call of it
    a_init,             \* get_relative_affine: the argument init_affine
    a_current,          \* get_relative_affine: the argument current_affine
    a_result,           \* get_relative_affine: the matrix returned (optional)
    a_error             \* get_relative_affine: the exception raised, or "none"

opVars == <<pc, exc, is_first_frame, gripper_state, start_teleop, init_affine,
            home_rot, home_pos, controller_state, inflight, released,
            reset_sent, action_sent, state_reads, was_engaged, prev_trigger>>
envVars == <<e_pc, e_cfg, e_inflight, e_franka_state, e_curr_images, e_error,
             e_call, e_ret, e_frames, e_sensor_baseline, e_sensor_prev_state,
             e_reskin_state>>
affineVars == <<a_pc, a_init, a_current, a_result, a_error>>
vars == <<prog, opVars, envVars, affineVars>>

None == <<>>
Some(x) == <<x>>

----------------------------------------------------------------------------
(* Bounds of the model *)

\* the largest displacement of the controller along an axis
MaxShift == 1
\* how far outside the workspace box a reported robot position may lie
MaxOvershoot == 1

----------------------------------------------------------------------------
(* Constants of frankateach.constants *)

GRIPPER_OPEN == "OPEN"
GRIPPER_CLOSE == "CLOSED"

\* the threshold of the trigger axes, 0.5, in tenths
TRIGGER_THRESHOLD == 5

ROBOT_WORKSPACE_MIN == <<1, -1, 0>>
ROBOT_WORKSPACE_MAX == <<3, 1, 2>>

\* frame alignment: controller frame to robot frame (rotation, translation)
H_R_V == <<<<0, 0, 1, 0>>, <<-1, 0, 0, 0>>, <<0, -1, 0, 0>>, <<0, 0, 0, 1>>>>
H_R_V_star == <<<<-1, 0, 0, 0>>, <<0, -1, 0, 0>>, <<0, 0, 1, 0>>, <<0, 0, 0, 1>>>>

----------------------------------------------------------------------------
(* 4x4 homogeneous matrices: numpy @, pinv, slicing, np.block *)

MatMul(A, B) ==
    [i \in 1..4 |-> [j \in 1..4 |->
        A[i][1] * B[1][j] + A[i][2] * B[2][j] + A[i][3] * B[3][j] + A[i][4] * B[4][j]]]

\* M[:3, :3]
RotBlock(M) == [i \in 1..3 |-> [j \in 1..3 |-> M[i][j]]]
\* M[:3, 3]
TransBlock(M) == [i \in 1..3 |-> M[i][4]]

\* np.block([[R, t.reshape(3, 1)], [0, 0, 0, 1]])
Block(R, t) ==
    [i \in 1..4 |-> [j \in 1..4 |->
        IF i <= 3 THEN (IF j <= 3 THEN R[i][j] ELSE t[i])
        ELSE (IF j = 4 THEN 1 ELSE 0)]]

Mat3Mul(A, B) ==
    [i \in 1..3 |-> [j \in 1..3 |->
        A[i][1] * B[1][j] + A[i][2] * B[2][j] + A[i][3] * B[3][j]]]

Identity4 == <<<<1, 0, 0, 0>>, <<0, 1, 0, 0>>, <<0, 0, 1, 0>>, <<0, 0, 0, 1>>>>

Transpose(M) == [i \in 1..4 |-> [j \in 1..4 |-> M[j][i]]]

\* a pseudo-inverse that inverts the rotation and forgets the translation
pinv_rotation_only(M) ==
    Block([i \in 1..3 |-> [j \in 1..3 |-> M[j][i]]], <<0, 0, 0>>)

\* numpy.linalg.pinv, which raises for no finite matrix. Of a symmetric
\* idempotent matrix (an orthogonal projection, singular unless it is the
\* identity) the pseudo-inverse is the matrix itself; of a rigid transform
\* [R t; 0 1] with R orthogonal it is the inverse, [R^T  -R^T t; 0 1].
pinv(M) ==
    IF M = Transpose(M) /\ MatMul(M, M) = M
    THEN M
    ELSE Block([i \in 1..3 |-> [j \in 1..3 |-> M[j][i]]],
               [i \in 1..3 |-> 0 - (M[1][i] * M[1][4] + M[2][i] * M[2][4]
                                       + M[3][i] * M[3][4])])

pinv_H_R_V == pinv(H_R_V)
pinv_H_R_V_star == pinv(H_R_V_star)

\* the delta taken without inverting the initial pose
get_relative_affine_no_init(init, current) ==
    LET H_V_des == current
        relative_affine_rot == RotBlock(MatMul(MatMul(pinv_H_R_V, H_V_des), H_R_V))
        relative_affine_trans ==
            TransBlock(MatMul(MatMul(pinv_H_R_V_star, H_V_des), H_R_V_star))
    IN  Block(relative_affine_rot, relative_affine_trans)

get_relative_affine(init, current) ==
    LET H_V_des == MatMul(pinv(init), current)
        relative_affine_rot == RotBlock(MatMul(MatMul(pinv_H_R_V, H_V_des), H_R_V))
        relative_affine_trans ==
            TransBlock(MatMul(MatMul(pinv_H_R_V_star, H_V_des), H_R_V_star))
    IN  Block(relative_affine_rot, relative_affine_trans)

----------------------------------------------------------------------------
(* deoxys.utils.transform_utils: quaternions are (x, y, z, w) *)

\* quat2mat of a unit quaternion
quat2mat(q) ==
    LET x == q[1]  y == q[2]  z == q[3]  w == q[4]
    IN  <<<<1 - 2 * (y * y + z * z), 2 * (x * y - z * w), 2 * (x * z + y * w)>>,
          <<2 * (x * y + z * w), 1 - 2 * (x * x + z * z), 2 * (y * z - x * w)>>,
          <<2 * (x * z - y * w), 2 * (y * z + x * w), 1 - 2 * (x * x + y * y)>>>>

\* mat2quat returns the unit quaternion of the rotation with w >= 0; for the
\* half turns (w = 0) this is the one with the positive vector part.
CanonicalQuats == {<<0, 0, 0, 1>>, <<1, 0, 0, 0>>, <<0, 1, 0, 0>>, <<0, 0, 1, 0>>}
mat2quat(R) == CHOOSE q \in CanonicalQuats : quat2mat(q) = R

\* a clip that forgets the upper bound
clip_lower_only(x, a_min, a_max) ==
    [i \in 1..3 |-> IF x[i] < a_min[i] THEN a_min[i] ELSE x[i]]

\* np.clip(x, a_min, a_max) = minimum(a_max, maximum(x, a_min)), per component
clip(x, a_min, a_max) ==
    [i \in 1..3 |->
        LET lo == IF x[i] < a_min[i] THEN a_min[i] ELSE x[i]
        IN  IF lo > a_max[i] THEN a_max[i] ELSE lo]

VecAdd(a, b) == [i \in 1..3 |-> a[i] + b[i]]

----------------------------------------------------------------------------
(* What the collaborators can deliver *)

HalfTurnZ == <<<<-1, 0, 0>>, <<0, -1, 0>>, <<0, 0, 1>>>>
Identity3 == <<<<1, 0, 0>>, <<0, 1, 0>>, <<0, 0, 1>>>>

ControllerRots == {Identity3, HalfTurnZ}
ControllerShifts ==
    {<<0, 0, 0>>, <<MaxShift, 0 - MaxShift, 0>>, <<0 - MaxShift, 0, MaxShift>>}
ControllerAffines == {Block(R, t) : R \in ControllerRots, t \in ControllerShifts}

TriggerValues == {TRIGGER_THRESHOLD, TRIGGER_THRESHOLD + 1}

\* a controller sample (ZMQKeypointSubscriber.recv_keypoints on "controller_state")
ControllerSamples ==
    [right_affine : ControllerAffines, right_a : BOOLEAN, right_b : BOOLEAN,
     right_index_trigger : TriggerValues, right_hand_trigger : TriggerValues]

\* a robot state (ZMQKeypointSubscriber.recv_keypoints on "state")
RobotPositions ==
    {<<2, 0, 1>>,
     <<ROBOT_WORKSPACE_MAX[1] + MaxOvershoot, ROBOT_WORKSPACE_MIN[2],
       ROBOT_WORKSPACE_MIN[3]>>}
RobotQuats == {<<0, 0, 0, 1>>, <<0, 0, 0, -1>>, <<0, 0, 1, 0>>}
RobotStates == [pos : RobotPositions, quat : RobotQuats]

----------------------------------------------------------------------------
(* FrankaOperator *)

FrankaAction(pos, quat, gripper, reset) ==
    [pos |-> pos, quat |-> quat, gripper |-> gripper, reset |-> reset]

\* the action of the reset handshake
ResetAction == FrankaAction(<<0, 0, 0>>, <<0, 0, 0, 0>>, GRIPPER_OPEN, TRUE)

\* zmq REQ socket: a request sent stays outstanding until its reply is received
SocketSend(sock, msg) == Append(sock, msg)
\* a recv that is left out: the request stays outstanding
SocketRecvOmitted(sock) == sock
SocketRecv(sock) == Tail(sock)

LoopPcs == {"start_loop", "poll", "reset_send", "reset_recv", "reset_state",
            "flags", "rehome", "act_send", "act_recv", "end_loop"}
FinallyPcs == {"stop_controller", "stop_robot", "close_socket", "term_context"}

Resources == {"controller_subscriber", "robot_subscriber", "socket", "context"}

OpInit ==
    /\ pc = "start_loop"
    /\ exc = "none"
    /\ is_first_frame = TRUE
    /\ gripper_state = GRIPPER_OPEN
    /\ start_teleop = FALSE
    /\ init_affine = None
    /\ home_rot = None
    /\ home_pos = None
    /\ controller_state = None
    /\ inflight = <<>>
    /\ released = [r \in Resources |-> 0]
    /\ reset_sent = 0
    /\ action_sent = FALSE
    /\ state_reads = 0
    /\ was_engaged = FALSE
    /\ prev_trigger = None

Triggers(s) == <<s.right_index_trigger, s.right_hand_trigger>>

\* stream: self.teleop_timer.start_loop()
StartLoop ==
    /\ prog = "teleop"
    /\ pc = "start_loop"
    /\ pc' = "poll"
    /\ state_reads' = 0
    /\ was_engaged' = start_teleop
    /\ prev_trigger' = IF controller_state = None THEN None
                       ELSE Some(Triggers(controller_state[1]))
    /\ UNCHANGED <<prog, exc, is_first_frame, gripper_state, start_teleop,
                   init_affine, home_rot, home_pos, controller_state, inflight,
                   released, reset_sent, action_sent, envVars, affineVars>>

\* the handshake repeated on every tick
AfterPollAlwaysResets(first) == "reset_send"
\* where the tick goes after the controller sample is stored
AfterPoll(first) == IF first THEN "reset_send" ELSE "flags"

\* _apply_retargeted_angles: self.controller_state = ...recv_keypoints()
RecvControllerState(sample) ==
    /\ prog = "teleop"
    /\ pc = "poll"
    /\ controller_state' = sample
    /\ pc' = AfterPoll(is_first_frame)
    /\ UNCHANGED <<prog, exc, is_first_frame, gripper_state, start_teleop,
                   init_affine, home_rot, home_pos, inflight, released,
                   reset_sent, action_sent, state_reads, was_engaged,
                   prev_trigger, envVars, affineVars>>

\* first frame: self.socket.send(reset action)
SendReset ==
    /\ prog = "teleop"
    /\ pc = "reset_send"
    /\ inflight' = SocketSend(inflight, ResetAction)
    /\ reset_sent' = reset_sent + 1
    /\ pc' = "reset_recv"
    /\ UNCHANGED <<prog, exc, is_first_frame, gripper_state, start_teleop,
                   init_affine, home_rot, home_pos, controller_state, released,
                   action_sent, state_reads, was_engaged, prev_trigger, envVars, affineVars>>

\* first frame: ok_msg = self.socket.recv()
RecvResetAck ==
    /\ prog = "teleop"
    /\ pc = "reset_recv"
    /\ inflight # <<>>
    /\ inflight' = SocketRecv(inflight)
    /\ pc' = "reset_state"
    /\ UNCHANGED <<prog, exc, is_first_frame, gripper_state, start_teleop,
                   init_affine, home_rot, home_pos, controller_state, released,
                   reset_sent, action_sent, state_reads, was_engaged,
                   prev_trigger, envVars, affineVars>>

\* first frame: robot_state = ...recv_keypoints(); home_rot, home_pos = ...
RecvResetState(robot_state) ==
    /\ prog = "teleop"
    /\ pc = "reset_state"
    /\ home_rot' = Some(quat2mat(robot_state.quat))
    /\ home_pos' = Some(robot_state.pos)
    /\ is_first_frame' = FALSE
    /\ state_reads' = state_reads + 1
    /\ pc' = "flags"
    /\ UNCHANGED <<prog, exc, gripper_state, start_teleop, init_affine,
                   controller_state, inflight, released, reset_sent,
                   action_sent, was_engaged, prev_trigger, envVars, affineVars>>

\* lines 86-88: if right_a: start_teleop = True; init_affine = right_affine
EngageTeleop(teleop, sample) == IF sample.right_a THEN TRUE ELSE teleop
EngageAffine(affine, sample) ==
    IF sample.right_a THEN Some(sample.right_affine) ELSE affine

\* a disengagement that forgets to clear init_affine
DisengageAffineKeeps(affine, sample) == affine

\* lines 89-91: if right_b: start_teleop = False; init_affine = None
DisengageTeleop(teleop, sample) == IF sample.right_b THEN FALSE ELSE teleop
DisengageAffine(affine, sample) == IF sample.right_b THEN None ELSE affine

\* a re-homing that is skipped when the engage flag is set as well
RehomesUnlessEngaging(sample) == sample.right_b /\ ~sample.right_a

\* line 89: whether the tick re-reads the robot state
Rehomes(sample) == sample.right_b

\* the engage and disengage flags of the sample; a missing sample has no
\* attribute right_a, and the AttributeError leaves the loop
ApplyFlags ==
    /\ prog = "teleop"
    /\ pc = "flags"
    /\ IF controller_state = None
       THEN /\ exc' = "AttributeError"
            /\ pc' = "stop_controller"
            /\ UNCHANGED <<start_teleop, init_affine>>
       ELSE LET sample == controller_state[1] IN
            /\ start_teleop' =
                   DisengageTeleop(EngageTeleop(start_teleop, sample), sample)
            /\ init_affine' =
                   DisengageAffine(EngageAffine(init_affine, sample), sample)
            /\ pc' = IF Rehomes(sample) THEN "rehome" ELSE "act_send"
            /\ UNCHANGED exc
    /\ UNCHANGED <<prog, is_first_frame, gripper_state, home_rot, home_pos,
                   controller_state, inflight, released, reset_sent,
                   action_sent, state_reads, was_engaged, prev_trigger, envVars, affineVars>>

\* lines 92-97: robot_state = ...recv_keypoints(); home_rot, home_pos = ...
Rehome(robot_state) ==
    /\ prog = "teleop"
    /\ pc = "rehome"
    /\ home_rot' = Some(quat2mat(robot_state.quat))
    /\ home_pos' = Some(robot_state.pos)
    /\ state_reads' = state_reads + 1
    /\ pc' = "act_send"
    /\ UNCHANGED <<prog, exc, is_first_frame, gripper_state, start_teleop,
                   init_affine, controller_state, inflight, released,
                   reset_sent, action_sent, was_engaged, prev_trigger, envVars, affineVars>>

\* the two triggers tested in the other order
GripperActionHandFirst(sample) ==
    IF sample.right_hand_trigger > TRIGGER_THRESHOLD THEN Some(GRIPPER_OPEN)
    ELSE IF sample.right_index_trigger > TRIGGER_THRESHOLD THEN Some(GRIPPER_CLOSE)
    ELSE None

\* lines 107-111
GripperAction(sample) ==
    IF sample.right_index_trigger > TRIGGER_THRESHOLD THEN Some(GRIPPER_CLOSE)
    ELSE IF sample.right_hand_trigger > TRIGGER_THRESHOLD THEN Some(GRIPPER_OPEN)
    ELSE None

\* a one-shot gripper command: released triggers open the gripper again
UpdateGripperOneShot(state, sample) ==
    LET gripper_action == GripperAction(sample)
    IN  IF gripper_action # None THEN gripper_action[1] ELSE GRIPPER_OPEN

\* lines 113-114
UpdateGripper(state, sample) ==
    LET gripper_action == GripperAction(sample)
    IN  IF gripper_action # None /\ gripper_action[1] # state
        THEN gripper_action[1] ELSE state

\* lines 99-105: np.zeros((4, 4)) with [3, 3] = 1 when not teleoperating
RelativeAffine(teleop, affine, sample) ==
    IF teleop THEN get_relative_affine(affine[1], sample.right_affine)
    ELSE <<<<0, 0, 0, 0>>, <<0, 0, 0, 0>>, <<0, 0, 0, 0>>, <<0, 0, 0, 1>>>>

\* lines 116-136
TargetPos(teleop, pos, relative_affine) ==
    IF teleop
    THEN clip(VecAdd(pos, TransBlock(relative_affine)),
              ROBOT_WORKSPACE_MIN, ROBOT_WORKSPACE_MAX)
    ELSE pos
TargetQuat(teleop, rot, relative_affine) ==
    IF teleop THEN mat2quat(Mat3Mul(rot, RotBlock(relative_affine)))
    ELSE mat2quat(rot)

\* lines 99-155: the target of the tick, the gripper update, socket.send(action)
SendAction ==
    /\ prog = "teleop"
    /\ pc = "act_send"
    /\ LET sample == controller_state[1]
           relative_affine == RelativeAffine(start_teleop, init_affine, sample)
           gripper == UpdateGripper(gripper_state, sample)
       IN  /\ gripper_state' = gripper
           /\ inflight' = SocketSend(inflight,
                  FrankaAction(TargetPos(start_teleop, home_pos[1], relative_affine),
                               TargetQuat(start_teleop, home_rot[1], relative_affine),
                               gripper, FALSE))
    /\ action_sent' = TRUE
    /\ pc' = "act_recv"
    /\ UNCHANGED <<prog, exc, is_first_frame, start_teleop, init_affine,
                   home_rot, home_pos, controller_state, released, reset_sent,
                   state_reads, was_engaged, prev_trigger, envVars, affineVars>>

\* line 156: ok_msg = self.socket.recv()
RecvAck ==
    /\ prog = "teleop"
    /\ pc = "act_recv"
    /\ inflight # <<>>
    /\ inflight' = SocketRecv(inflight)
    /\ pc' = "end_loop"
    /\ UNCHANGED <<prog, exc, is_first_frame, gripper_state, start_teleop,
                   init_affine, home_rot, home_pos, controller_state, released,
                   reset_sent, action_sent, state_reads, was_engaged,
                   prev_trigger, envVars, affineVars>>

\* stream: self.teleop_timer.end_loop(), then the next iteration
EndLoop ==
    /\ prog = "teleop"
    /\ pc = "end_loop"
    /\ pc' = "start_loop"
    /\ UNCHANGED <<prog, exc, is_first_frame, gripper_state, start_teleop,
                   init_affine, home_rot, home_pos, controller_state, inflight,
                   released, reset_sent, action_sent, state_reads, was_engaged,
                   prev_trigger, envVars, affineVars>>

\* stream: a KeyboardInterrupt raised anywhere inside the try block
KeyboardInterrupt ==
    /\ prog = "teleop"
    /\ pc \in LoopPcs
    /\ exc' = "KeyboardInterrupt"
    /\ pc' = "stop_controller"
    /\ UNCHANGED <<prog, is_first_frame, gripper_state, start_teleop,
                   init_affine, home_rot, home_pos, controller_state, inflight,
                   released, reset_sent, action_sent, state_reads, was_engaged,
                   prev_trigger, envVars, affineVars>>

\* a finally block that does not close the request socket
FinallyNextSkipsSocket(p) ==
    CASE p = "stop_controller" -> "stop_robot"
      [] p = "stop_robot" -> "term_context"
      [] p = "close_socket" -> "term_context"
      [] p = "term_context" -> IF exc = "KeyboardInterrupt" THEN "returned"
                                ELSE "raised"

\* stream: the order of the finally block, and how stream() ends
FinallyNext(p) ==
    CASE p = "stop_controller" -> "stop_robot"
      [] p = "stop_robot" -> "close_socket"
      [] p = "close_socket" -> "term_context"
      [] p = "term_context" -> IF exc = "KeyboardInterrupt" THEN "returned"
                                ELSE "raised"

Release(at, resource) ==
    /\ prog = "teleop"
    /\ pc = at
    /\ released' = [released EXCEPT ![resource] = @ + 1]
    /\ pc' = FinallyNext(at)
    /\ UNCHANGED <<prog, exc, is_first_frame, gripper_state, start_teleop,
                   init_affine, home_rot, home_pos, controller_state, inflight,
                   reset_sent, action_sent, state_reads, was_engaged,
                   prev_trigger, envVars, affineVars>>

\* finally: self._controller_state_subscriber.stop()
StopControllerSubscriber == Release("stop_controller", "controller_subscriber")
\* finally: self._robot_state_subscriber.stop()
StopRobotSubscriber == Release("stop_robot", "robot_subscriber")
\* finally: self.socket.close()
CloseSocket == Release("close_socket", "socket")
\* finally: self.context.term()
TermContext == Release("term_context", "context")

\* a poll delivers a sample, or none
Polled == {Some(s) : s \in ControllerSamples} \cup {None}

OpNext ==
    \/ StartLoop
    \/ \E sample \in Polled : RecvControllerState(sample)
    \/ SendReset
    \/ RecvResetAck
    \/ \E robot_state \in RobotStates : RecvResetState(robot_state)
    \/ ApplyFlags
    \/ \E robot_state \in RobotStates : Rehome(robot_state)
    \/ SendAction
    \/ RecvAck
    \/ EndLoop
    \/ KeyboardInterrupt
    \/ StopControllerSubscriber
    \/ StopRobotSubscriber
    \/ CloseSocket
    \/ TermContext

----------------------------------------------------------------------------
(* FrankaEnv *)

\* __init__, lines 41-42: sensor_type is "reskin" or None
SensorTypes == {"reskin", "none"}
Frames == {"frame_a", "frame_b"}

\* the largest number of cameras an env is constructed with
MaxCameras == 2
\* __init__ and render: the default image size
DefaultWidth == 640
DefaultHeight == 480
\* __init__, lines 35 and 45: colour channels of a frame
n_channels == 3
\* __init__, lines 72-73
n_sensors == 2
sensor_dim == 15

\* sensor_params: None (the default), or a dict with subtract_sensor_baseline
SensorParams ==
    {None} \cup {Some([subtract_sensor_baseline |-> b]) : b \in BOOLEAN}
\* what the reskin subscriber delivers: a dict with or without "sensor_values"
SensorStates == {"sensor_values", "missing_key"}

\* one frame per camera, in the order of self.image_subscribers
FrameLists(num_cameras) == [1..num_cameras -> Frames]

\* the call the client makes, with render's arguments
Call(name) == [name |-> name, mode |-> "", size |-> <<>>]
RenderCall(mode, size) == [name |-> "render", mode |-> mode, size |-> size]
RenderModes == {"rgb_array", "human"}
RenderSizes == {<<DefaultWidth, DefaultHeight>>,
                <<DefaultWidth \div 2, DefaultHeight \div 2>>}

\* what a call returned: nothing (it raised, or has not returned), an
\* observation record (channel names with their shapes), or an image
NoImage == [frames |-> <<>>, shape |-> <<>>]
NoReturn == [kind |-> "none", obs |-> {}, image |-> NoImage]
Returned(kind, obs, image) == [kind |-> kind, obs |-> obs, image |-> image]

Channel(name, shape) == [name |-> name, shape |-> shape]
PixelsKey(i) == <<"pixels0", "pixels1", "pixels2", "pixels3">>[i + 1]
SensorKey(k) == <<"sensor0", "sensor1">>[k + 1]
SensorDiffsKey(k) == <<"sensor0_diffs", "sensor1_diffs">>[k + 1]

\* step lines 121-128, reset lines 164-171: pos, quat and gripper concatenated
Features(franka_state) ==
    <<Len(franka_state.pos) + Len(franka_state.quat) + 1>>
\* step lines 136-137, reset lines 182-183: cv2.resize(image, (width, height))
Resized(width, height) == <<height, width, n_channels>>
\* _get_reskin_state, lines 216-225: the channels of reskin_state
ReskinChannels ==
    UNION {{Channel(SensorKey(k), <<sensor_dim>>),
            Channel(SensorDiffsKey(k), <<sensor_dim>>)} : k \in 0..(n_sensors - 1)}

\* step lines 121-139, reset lines 164-185: the record of a hardware call;
\* with_reskin says whether reskin_state was merged into it
Observation(franka_state, image_list, with_reskin) ==
    {Channel("features", Features(franka_state)),
     Channel("proprioceptive", Features(franka_state))}
      \cup (IF with_reskin THEN ReskinChannels ELSE {})
      \cup {Channel(PixelsKey(i - 1), Resized(DefaultWidth, DefaultHeight)) :
               i \in DOMAIN image_list}

EnvInit ==
    /\ e_pc = "new"
    /\ e_cfg = None
    /\ e_inflight = <<>>
    /\ e_franka_state = None
    /\ e_curr_images = None
    /\ e_error = "none"
    /\ e_call = Call("none")
    /\ e_ret = NoReturn
    /\ e_frames = None
    /\ e_sensor_baseline = None
    /\ e_sensor_prev_state = None
    /\ e_reskin_state = None

\* __init__, lines 58-83. In hardware mode with the reskin sensor: line 76
\* subscripts sensor_params (TypeError when it is None); line 81 calls
\* _get_reskin_state(update_baseline=True), whose line 202 subscripts the
\* sensor state (KeyError when "sensor_values" is missing) and whose line 206
\* sends on self.action_request_socket, which only line 83 creates
\* (AttributeError). No path through lines 70-81 reaches line 83.
ConstructError(use_robot, sensor_type, sensor_params, sensor_state) ==
    IF use_robot /\ sensor_type = "reskin"
    THEN IF sensor_params = None THEN "TypeError"
         ELSE IF sensor_state = "missing_key" THEN "KeyError"
         ELSE "AttributeError"
    ELSE "none"

ConstructRaises(use_robot, sensor_type) ==
    \A sensor_params \in SensorParams, sensor_state \in SensorStates :
        ConstructError(use_robot, sensor_type, sensor_params, sensor_state)
            # "none"

\* __init__: the constructor raises before line 206 has completed a single
\* exchange, so sensor_baseline is never assigned and sensor_prev_state keeps
\* the None of line 75
EnvConstruct(num_cameras, use_robot, sensor_type, sensor_params, sensor_state) ==
    /\ prog = "env"
    /\ e_pc = "new"
    /\ e_cfg' = Some([num_cameras |-> num_cameras, use_robot |-> use_robot,
                      sensor_type |-> sensor_type,
                      sensor_params |-> sensor_params])
    /\ e_call' = Call("__init__")
    /\ e_error' = ConstructError(use_robot, sensor_type, sensor_params,
                                 sensor_state)
    /\ e_pc' = IF e_error' = "none" THEN "idle" ELSE "failed"
    /\ UNCHANGED <<prog, opVars, affineVars, e_inflight, e_franka_state,
                   e_curr_images, e_ret, e_frames, e_sensor_baseline,
                   e_sensor_prev_state, e_reskin_state>>

\* the request socket exists only when line 83 has run
HasSocket == e_cfg # None /\ e_cfg[1].use_robot

\* get_state (line 86) or step (line 110) on an env without
\* action_request_socket raises AttributeError and leaves the env as it was
EnvCallRaises(name) ==
    /\ prog = "env"
    /\ e_pc = "idle"
    /\ ~HasSocket
    /\ e_call' = Call(name)
    /\ e_error' = "AttributeError"
    /\ e_ret' = NoReturn
    /\ UNCHANGED <<prog, opVars, affineVars, e_pc, e_cfg, e_inflight,
                   e_franka_state, e_curr_images, e_frames, e_sensor_baseline,
                   e_sensor_prev_state, e_reskin_state>>

\* reset without hardware, lines 187-198: features and proprioceptive are put
\* into obs, then line 192 reads self.n_sensors, which only line 72 (hardware
\* mode) sets: AttributeError, before sensor_baseline (line 195) is assigned
\* and before the single "pixels" channel (line 196) is added
ResetNoHardware ==
    /\ prog = "env"
    /\ e_pc = "idle"
    /\ ~HasSocket
    /\ e_call' = Call("reset")
    /\ e_error' = "AttributeError"
    /\ e_ret' = NoReturn
    /\ UNCHANGED <<prog, opVars, affineVars, e_pc, e_cfg, e_inflight,
                   e_franka_state, e_curr_images, e_frames, e_sensor_baseline,
                   e_sensor_prev_state, e_reskin_state>>

EnvSend(name, request, next) ==
    /\ prog = "env"
    /\ e_pc = "idle"
    /\ HasSocket
    /\ e_call' = Call(name)
    /\ e_inflight' = SocketSend(e_inflight, request)
    /\ e_pc' = next
    /\ e_error' = "none"
    /\ e_ret' = NoReturn
    /\ UNCHANGED <<prog, opVars, affineVars, e_cfg, e_franka_state,
                   e_curr_images, e_frames, e_sensor_baseline,
                   e_sensor_prev_state, e_reskin_state>>

EnvRecv(at, franka_state, next) ==
    /\ prog = "env"
    /\ e_pc = at
    /\ e_inflight # <<>>
    /\ e_inflight' = SocketRecv(e_inflight)
    /\ e_franka_state' = Some(franka_state)
    /\ e_pc' = next
    /\ e_ret' = IF next = "idle"
                THEN Returned("state", {}, NoImage)
                ELSE NoReturn
    /\ UNCHANGED <<prog, opVars, affineVars, e_cfg, e_curr_images, e_error,
                   e_call, e_frames, e_sensor_baseline, e_sensor_prev_state,
                   e_reskin_state>>

\* a request that is a bare command, such as b"get_state"
Command(name) == [command |-> name]

\* get_state, line 86
GetStateSend == EnvSend("get_state", Command("get_state"), "get_state_recv")
\* get_state, lines 87-89
GetStateRecv(franka_state) == EnvRecv("get_state_recv", franka_state, "idle")

\* step, lines 92-98: gripper > 0.5 is GRIPPER_OPEN, otherwise GRIPPER_CLOSE
GRIPPER_COMMAND_THRESHOLD == 5
StepGripper(gripper) ==
    IF gripper > GRIPPER_COMMAND_THRESHOLD THEN GRIPPER_OPEN ELSE GRIPPER_CLOSE

\* step, lines 101-110
StepSend(abs_action) ==
    EnvSend("step", FrankaAction(abs_action.pos, abs_action.quat,
                                 StepGripper(abs_action.gripper), FALSE),
            "step_recv")
\* step, lines 111-112
StepRecv(franka_state) == EnvRecv("step_recv", franka_state, "step_images")

\* reset, lines 145-155 (hardware mode)
ResetSend == EnvSend("reset", ResetAction, "reset_recv")
\* reset, lines 156-157
ResetRecv(franka_state) == EnvRecv("reset_recv", franka_state, "reset_images")

\* step line 119, reset line 162: self.curr_images = image_list
CurrImages(curr_images, image_list) == Some(image_list)

\* step lines 114-139, reset lines 158-185: one frame is received from every
\* camera, the frames are kept in curr_images and the record is returned. A
\* hardware env that was constructed has sensor_type None, so the reskin
\* branch (lines 129-134, 175-180) is skipped.
EnvImages(at, image_list) ==
    /\ prog = "env"
    /\ e_pc = at
    /\ e_frames' = Some(image_list)
    /\ e_curr_images' = CurrImages(e_curr_images, image_list)
    /\ e_ret' = Returned("obs",
                         Observation(e_franka_state[1], image_list, FALSE),
                         NoImage)
    /\ e_pc' = "idle"
    /\ UNCHANGED <<prog, opVars, affineVars, e_cfg, e_inflight, e_franka_state,
                   e_error, e_call, e_sensor_baseline, e_sensor_prev_state,
                   e_reskin_state>>

StepImages(image_list) == EnvImages("step_images", image_list)
ResetImages(image_list) == EnvImages("reset_images", image_list)

\* render without the assertion of line 228
RenderErrorUnchecked(curr_images, mode) ==
    IF mode # "rgb_array" THEN "NotImplementedError" ELSE "none"

\* render, lines 228-236: the exception it raises, or "none"
RenderError(curr_images, mode) ==
    IF curr_images = None THEN "AssertionError"
    ELSE IF mode # "rgb_array" THEN "NotImplementedError"
    ELSE "none"

\* render, lines 230-234: the frames of curr_images, each resized to
\* (width, height), side by side (np.concatenate along axis 1)
Concatenated(images, size) ==
    [frames |-> images,
     shape |-> <<size[2], Len(images) * size[1], n_channels>>]

\* render, lines 227-236
Render(mode, size) ==
    /\ prog = "env"
    /\ e_pc = "idle"
    /\ e_call' = RenderCall(mode, size)
    /\ e_error' = RenderError(e_curr_images, mode)
    /\ e_ret' = IF e_error' = "none" /\ e_curr_images # None
                THEN Returned("image", {}, Concatenated(e_curr_images[1], size))
                ELSE NoReturn
    /\ UNCHANGED <<prog, opVars, affineVars, e_pc, e_cfg, e_inflight,
                   e_franka_state, e_curr_images, e_frames, e_sensor_baseline,
                   e_sensor_prev_state, e_reskin_state>>

AbsActions == [pos : RobotPositions, quat : RobotQuats, gripper : TriggerValues]

\* the frames the cameras of the constructed env deliver to one call
ImageLists == IF e_cfg = None THEN {} ELSE FrameLists(e_cfg[1].num_cameras)

EnvNext ==
    \/ \E num_cameras \in 1..MaxCameras, use_robot \in BOOLEAN,
          sensor_type \in SensorTypes, sensor_params \in SensorParams,
          sensor_state \in SensorStates :
           EnvConstruct(num_cameras, use_robot, sensor_type, sensor_params,
                        sensor_state)
    \/ \E name \in {"get_state", "step"} : EnvCallRaises(name)
    \/ ResetNoHardware
    \/ GetStateSend
    \/ \E franka_state \in RobotStates : GetStateRecv(franka_state)
    \/ \E abs_action \in AbsActions : StepSend(abs_action)
    \/ \E franka_state \in RobotStates : StepRecv(franka_state)
    \/ \E image_list \in ImageLists : StepImages(image_list)
    \/ ResetSend
    \/ \E franka_state \in RobotStates : ResetRecv(franka_state)
    \/ \E image_list \in ImageLists : ResetImages(image_list)
    \/ \E mode \in RenderModes, size \in RenderSizes : Render(mode, size)

----------------------------------------------------------------------------
(* get_relative_affine called on its own *)

HalfTurnX == <<<<1, 0, 0>>, <<0, -1, 0>>, <<0, 0, -1>>>>
\* rotations: the controller's, a half turn about x, and the quarter turns
\* of the frame alignment
AffineRots == ControllerRots \cup {HalfTurnX, RotBlock(H_R_V)}
AffineShifts == {<<x, y, 0>> : x, y \in (0 - MaxShift)..MaxShift}
\* rigid transforms
RigidAffines == {Block(R, t) : R \in AffineRots, t \in AffineShifts}
\* singular matrices: an all-zero pose, and a pose flattened along z
Zero4 == [i \in 1..4 |-> [j \in 1..4 |-> 0]]
FlatZ == <<<<1, 0, 0, 0>>, <<0, 1, 0, 0>>, <<0, 0, 0, 0>>, <<0, 0, 0, 1>>>>
SingularAffines == {Zero4, FlatZ}

\* no call of get_relative_affine on its own is in progress
AffineIdle ==
    /\ a_pc = "off"
    /\ a_init = None
    /\ a_current = None
    /\ a_result = None
    /\ a_error = "none"

AffineInit ==
    /\ a_pc = "call"
    /\ a_init \in {Some(M) : M \in RigidAffines \cup SingularAffines}
    /\ a_current \in {Some(M) : M \in RigidAffines}
    /\ a_result = None
    /\ a_error = "none"

\* get_relative_affine, lines 26-38: no statement tests init_affine and none
\* raises for a singular one, so the call returns a matrix
GetRelativeAffine ==
    /\ prog = "affine"
    /\ a_pc = "call"
    /\ a_result' = Some(get_relative_affine(a_init[1], a_current[1]))
    /\ a_error' = "none"
    /\ a_pc' = "returned"
    /\ UNCHANGED <<prog, opVars, envVars, a_init, a_current>>

AffineNext == GetRelativeAffine

----------------------------------------------------------------------------
(* The programs: teleoperator.main, or a client of FrankaEnv *)

Init == prog \in {"teleop", "env"} /\ OpInit /\ EnvInit /\ AffineIdle
Next == OpNext \/ EnvNext
Spec == Init /\ [][Next]_vars

\* get_relative_affine applied to every pair of arguments
AffineSpecInit == prog = "affine" /\ OpInit /\ EnvInit /\ AffineInit
AffineSpec == AffineSpecInit /\ [][AffineNext]_vars

\* the statements of the finally block are ordinary calls: once stream() is
\* unwinding, each of them is executed
FairSpec ==
    /\ Spec
    /\ WF_vars(StopControllerSubscriber)
    /\ WF_vars(StopRobotSubscriber)
    /\ WF_vars(CloseSocket)
    /\ WF_vars(TermContext)

----------------------------------------------------------------------------
(* Properties *)

\* the request in flight on the operator's socket, and the current sample
Sent == Head(inflight)
Sample == controller_state[1]

\* C1: on the request/reply channel at most one request is outstanding in
\* every reachable state, in FrankaOperator and in FrankaEnv: no send is made
\* and no tick or call begins while a request awaits its reply.
C1_AtMostOneOutstanding ==
    /\ Len(inflight) <= 1
    /\ Len(e_inflight) <= 1
    /\ pc \in LoopPcs \ {"reset_recv", "act_recv"} => inflight = <<>>
    /\ e_pc \in {"new", "failed", "idle", "step_images", "reset_images"}
           => e_inflight = <<>>

\* a later tick's action is in flight, the earlier ticks' replies received
C1_Witness ==
    /\ pc = "act_recv"
    /\ prev_trigger # None
    /\ Len(inflight) = 1
    /\ ~Sent.reset

\* C2: the reset handshake happens exactly once, in the first tick: the
\* reset=True action is sent and its reply received, then the robot state is
\* read and HomePose captured, all before any reset=False action is sent; no
\* later tick sends reset=True, and is_first_frame never becomes true again.
C2_ResetHandshakeOnce ==
    /\ [](reset_sent <= 1)
    /\ [](inflight # <<>> /\ Sent.reset => is_first_frame /\ prev_trigger = None)
    /\ [](is_first_frame <=> home_pos = None)
    /\ [](is_first_frame <=> home_rot = None)
    /\ [](~is_first_frame => reset_sent = 1)
    /\ [](action_sent => ~is_first_frame)
    /\ [](pc \in {"flags", "rehome", "act_send", "act_recv", "end_loop"}
            => ~is_first_frame)
    /\ [](prev_trigger # None => ~is_first_frame)
    /\ [][~is_first_frame => ~is_first_frame']_vars
    /\ [][is_first_frame /\ ~is_first_frame'
            => /\ pc = "reset_state"
               /\ inflight = <<>>
               /\ state_reads' = state_reads + 1
               /\ \E rs \in RobotStates :
                      /\ home_pos' = Some(rs.pos)
                      /\ home_rot' = Some(quat2mat(rs.quat))]_vars

\* a later tick sends an ordinary action after the one handshake
C2_Witness ==
    /\ pc = "act_recv"
    /\ prev_trigger # None
    /\ reset_sent = 1
    /\ ~Sent.reset

\* the position of HomePose brought into the workspace box, axis by axis
InBox(v, i) == ROBOT_WORKSPACE_MIN[i] <= v[i] /\ v[i] <= ROBOT_WORKSPACE_MAX[i]
Clamped(v, i) ==
    IF v[i] < ROBOT_WORKSPACE_MIN[i] THEN ROBOT_WORKSPACE_MIN[i]
    ELSE IF v[i] > ROBOT_WORKSPACE_MAX[i] THEN ROBOT_WORKSPACE_MAX[i]
    ELSE v[i]

\* the controller has not moved since init_affine was captured
Still == start_teleop /\ Sample.right_affine = init_affine[1]

\* C3 (as stated): in a round trip HOMED_IDLE -> ENGAGED -> HOMED_IDLE with the
\* controller pose equal to the pose captured at engagement, every action
\* sent (before, while engaged, after) carries HomePose as its target pose.
C3_RoundTripCarriesHomePose ==
    pc = "act_recv" /\ (~start_teleop \/ Still)
        => /\ Sent.pos = home_pos[1]
           /\ quat2mat(Sent.quat) = home_rot[1]

\* C3 (amended): before engagement and after disengagement every action
\* carries HomePose; while engaged with the controller at its engagement pose
\* every action carries HomePose's orientation and HomePose's position clamped
\* componentwise into the workspace box, which is HomePose when it lies inside.
C3_RoundTripCarriesClampedHomePose ==
    pc = "act_recv"
        => /\ ~start_teleop => Sent.pos = home_pos[1]
           /\ ~start_teleop \/ Still => quat2mat(Sent.quat) = home_rot[1]
           /\ Still => \A i \in 1..3 : Sent.pos[i] = Clamped(home_pos[1], i)
           /\ Still /\ (\A i \in 1..3 : InBox(home_pos[1], i))
                  => Sent.pos = home_pos[1]

\* engaged on an earlier tick, the controller still where it was engaged and
\* away from the origin, HomePose outside the box
C3_Witness ==
    /\ pc = "act_recv"
    /\ Still
    /\ ~Sample.right_a
    /\ Sample.right_affine # Identity4
    /\ \E i \in 1..3 : ~InBox(home_pos[1], i)

\* C4 (as stated): a tick in HOMED_IDLE whose sample has the engage flag set
\* and the disengage flag clear ends ENGAGED with init_affine the sample's
\* pose, and a tick that stays ENGAGED leaves init_affine unchanged, also
\* when its sample has the engage flag set.
C4_InitAffineCapturedOnEngageOnly ==
    [][pc = "flags" /\ controller_state # None
        => /\ ~start_teleop /\ Sample.right_a /\ ~Sample.right_b /\ pc' = "act_send"
                => start_teleop' /\ init_affine' = Some(Sample.right_affine)
           /\ start_teleop /\ start_teleop' => init_affine' = init_affine]_vars

\* C5 (as stated): HomePose is overwritten, and the robot state read, only in
\* the first-tick reset handshake or on an ENGAGED -> HOMED_IDLE transition
\* caused by the disengage flag; every other tick leaves HomePose unchanged
\* and reads no robot state.
C5_HomePoseOnlyOnHoming ==
    [][home_pos' # home_pos \/ home_rot' # home_rot \/ state_reads' > state_reads
        => \/ pc = "reset_state" /\ is_first_frame
           \/ pc = "rehome" /\ was_engaged /\ Sample.right_b]_vars

\* the target before clamping, home_pos + relative_pos
Unclamped ==
    VecAdd(home_pos[1],
           TransBlock(get_relative_affine(init_affine[1], Sample.right_affine)))

\* C6: every action sent on a tick that ends ENGAGED carries the
\* componentwise clamp of HomePose.position + relative_translation: each
\* axis lies in [ROBOT_WORKSPACE_MIN, ROBOT_WORKSPACE_MAX], an axis already
\* inside is sent unchanged, and each axis is clamped on its own.
C6_EngagedTargetClamped ==
    pc = "act_recv" /\ start_teleop
        => \A i \in 1..3 :
               /\ InBox(Sent.pos, i)
               /\ InBox(Unclamped, i) => Sent.pos[i] = Unclamped[i]
               /\ Unclamped[i] < ROBOT_WORKSPACE_MIN[i]
                      => Sent.pos[i] = ROBOT_WORKSPACE_MIN[i]
               /\ Unclamped[i] > ROBOT_WORKSPACE_MAX[i]
                      => Sent.pos[i] = ROBOT_WORKSPACE_MAX[i]

\* one axis above the box, one below it and one moved inside it, at once
C6_Witness ==
    /\ pc = "act_recv"
    /\ start_teleop
    /\ \E i, j, k \in 1..3 :
           /\ Unclamped[i] > ROBOT_WORKSPACE_MAX[i]
           /\ Unclamped[j] < ROBOT_WORKSPACE_MIN[j]
           /\ InBox(Unclamped, k) /\ Unclamped[k] # home_pos[1][k]
           /\ Sent.pos[k] = Unclamped[k]

\* the gripper rule of one sample
GripperRule(before, sample) ==
    IF sample.right_index_trigger > TRIGGER_THRESHOLD THEN GRIPPER_CLOSE
    ELSE IF sample.right_hand_trigger > TRIGGER_THRESHOLD THEN GRIPPER_OPEN
    ELSE before

\* C7: on every tick, engaged or not, GripperState after the tick is CLOSED if
\* the index trigger is above 0.5, otherwise OPEN if the hand trigger is above
\* 0.5, otherwise what it was; the reset=False action of the tick carries this
\* updated GripperState; GripperState is OPEN at construction and nothing else
\* changes it.
C7_GripperUpdateRule ==
    /\ [](~action_sent => gripper_state = GRIPPER_OPEN)
    /\ [][pc = "act_send" /\ pc' = "act_recv"
            => /\ gripper_state' = GripperRule(gripper_state, Sample)
               /\ inflight' = <<Head(inflight')>>
               /\ Head(inflight').gripper = gripper_state'
               /\ ~Head(inflight').reset]_vars
    /\ [][~(pc = "act_send" /\ pc' = "act_recv")
            => gripper_state' = gripper_state]_vars

\* an engaged tick with both triggers released carries the CLOSED it kept
C7_Witness ==
    /\ pc = "act_recv"
    /\ start_teleop
    /\ Sample.right_index_trigger <= TRIGGER_THRESHOLD
    /\ Sample.right_hand_trigger <= TRIGGER_THRESHOLD
    /\ gripper_state = GRIPPER_CLOSE
    /\ Sent.gripper = GRIPPER_CLOSE

\* the trigger axes of the sample before the current one; before the first
\* sample both triggers count as released
Earlier == IF prev_trigger = None THEN <<0, 0>> ELSE prev_trigger[1]

\* C8 (as stated): GripperState differs between two consecutive ticks only if
\* the trigger axis that requests the new state was at or below 0.5 in the
\* earlier sample and above 0.5 in the later one; while both axes stay at or
\* below 0.5 GripperState is unchanged.
C8_GripperChangesOnCrossing ==
    [][gripper_state' # gripper_state
        => /\ pc = "act_send"
           /\ gripper_state' = GRIPPER_CLOSE
                => /\ Earlier[1] <= TRIGGER_THRESHOLD
                   /\ Sample.right_index_trigger > TRIGGER_THRESHOLD
           /\ gripper_state' = GRIPPER_OPEN
                => /\ Earlier[2] <= TRIGGER_THRESHOLD
                   /\ Sample.right_hand_trigger > TRIGGER_THRESHOLD]_vars

\* C8 (amended): GripperState differs between two consecutive ticks only if
\* a trigger axis crossed 0.5 between the two samples: it becomes CLOSED only
\* if the index trigger was at or below 0.5 in the earlier sample and is above
\* 0.5 in the later one; it becomes OPEN only if in the later sample the hand
\* trigger is above 0.5 and the index trigger at or below 0.5, and either the
\* hand trigger was at or below 0.5 in the earlier sample or the index trigger
\* was above 0.5 in it.  While both axes stay at or below 0.5 GripperState is
\* unchanged.
C8_GripperChangesOnSomeCrossing ==
    [][gripper_state' # gripper_state
        => /\ pc = "act_send"
           /\ gripper_state' = GRIPPER_CLOSE
                => /\ Earlier[1] <= TRIGGER_THRESHOLD
                   /\ Sample.right_index_trigger > TRIGGER_THRESHOLD
           /\ gripper_state' = GRIPPER_OPEN
                => /\ Sample.right_hand_trigger > TRIGGER_THRESHOLD
                   /\ Sample.right_index_trigger <= TRIGGER_THRESHOLD
                   /\ \/ Earlier[2] <= TRIGGER_THRESHOLD
                      \/ Earlier[1] > TRIGGER_THRESHOLD]_vars

\* the gripper has opened in this tick although the hand trigger was above
\* 0.5 already in the earlier sample (which had closed the gripper)
C8_Witness ==
    /\ pc = "act_recv"
    /\ prev_trigger # None
    /\ prev_trigger[1][1] > TRIGGER_THRESHOLD
    /\ prev_trigger[1][2] > TRIGGER_THRESHOLD
    /\ Sample.right_index_trigger <= TRIGGER_THRESHOLD
    /\ Sample.right_hand_trigger > TRIGGER_THRESHOLD
    /\ gripper_state = GRIPPER_OPEN
    /\ Sent.gripper = GRIPPER_OPEN

\* C9 (as stated): a tick whose poll yields no sample sends no action, leaves
\* the engagement state, init_affine, HomePose and GripperState unchanged and
\* goes on to the next iteration instead of ending the loop with an error.
C9_MissingSampleSkipsTick ==
    [][controller_state = None
         /\ pc \in {"flags", "rehome", "act_send", "act_recv", "end_loop"}
        => /\ UNCHANGED <<start_teleop, init_affine, home_rot, home_pos,
                          gripper_state, inflight, action_sent>>
           /\ exc' # "AttributeError"
           /\ pc' \in LoopPcs \cup {"stop_controller"}]_vars

\* C10: an interrupt delivered at any point of an iteration ends stream(): it
\* returns, and when it returns both subscribers have been stopped, the
\* socket closed and the context terminated, each exactly once; nothing is
\* sent once the interrupt is observed.
C10_InterruptReleasesAll ==
    /\ [](exc = "KeyboardInterrupt" => <>(pc = "returned"))
    /\ [](pc = "returned" => \A r \in Resources : released[r] = 1)
    /\ [](\A r \in Resources : released[r] <= 1)
    /\ [](exc = "none" => \A r \in Resources : released[r] = 0)
    /\ [][exc' = "KeyboardInterrupt"
            => /\ inflight' = inflight
               /\ reset_sent' = reset_sent
               /\ action_sent' = action_sent]_vars

\* stream() has returned after an interrupt that arrived between an action's
\* send and its acknowledgment
C10_Witness ==
    /\ pc = "returned"
    /\ exc = "KeyboardInterrupt"
    /\ inflight # <<>>
    /\ ~Sent.reset
    /\ \A r \in Resources : released[r] = 1

\* stream: the points between two iterations of the while loop, after
\* end_loop() of one and before start_loop() of the next
IterationBoundary == {"start_loop", "end_loop"}

\* C11 (as stated): the loop is left because of an interrupt only at an
\* iteration boundary: never between the sending of a request (reset or
\* target action) and the receipt of its reply, and never between the reset
\* acknowledgment and the capture of HomePose.
C11_InterruptOnlyAtBoundary ==
    [][exc = "none" /\ exc' = "KeyboardInterrupt"
        => /\ pc \in IterationBoundary
           /\ pc \notin {"reset_recv", "act_recv"}
           /\ inflight = <<>>
           /\ pc # "reset_state"]_vars

\* the record a hardware reset() or step() returns for a configuration with
\* tactile sensing on or off: features, proprioceptive, pixels{i} for every
\* camera, and the reskin channels when sensor_type is "reskin"
ExpectedObservation(cfg) ==
    Observation(CHOOSE franka_state \in RobotStates : TRUE,
                CHOOSE image_list \in FrameLists(cfg.num_cameras) : TRUE,
                cfg.sensor_type = "reskin")

\* C12 (as stated): reset() of an env without hardware returns a record with
\* exactly the channel names and shapes of the record a hardware reset() or
\* step() returns for the same camera count, resolution and sensor type.
C12_NoHardwareResetSameRecord ==
    e_cfg # None /\ ~e_cfg[1].use_robot /\ e_call.name = "reset"
        => /\ e_error = "none"
           /\ e_ret.kind = "obs"
           /\ e_ret.obs = ExpectedObservation(e_cfg[1])

TactileEnv ==
    /\ e_cfg # None
    /\ e_cfg[1].use_robot
    /\ e_cfg[1].sensor_type = "reskin"
    /\ e_cfg[1].sensor_params # None

\* _get_reskin_state, lines 204-209: the readings a baseline is the mean of
BaselineReadings == 5

\* C14 (as stated): the first tactile reading after a baselining, the one at
\* construction included, has sensor{k}_diffs equal to sensor{k} (the
\* previous reading counts as zero) and becomes the previous reading.
C14_FirstDeltaIsAbsolute ==
    TactileEnv /\ e_call.name = "__init__" /\ e_pc # "new"
      /\ e_error # "KeyError"
        => /\ e_reskin_state # None
           /\ e_reskin_state[1].diffs = e_reskin_state[1].values
           /\ e_sensor_prev_state = Some(e_reskin_state[1].values)

\* C15 (as stated): construction (and every hardware reset()) replaces
\* SensorBaseline with the mean of exactly 5 fresh readings; step(),
\* get_state() and render() leave it unchanged.
C15_BaselineOnlyOnRebaselining ==
    /\ [](TactileEnv /\ e_pc # "new" /\ e_error # "KeyError"
            => /\ e_sensor_baseline # None
               /\ Len(e_sensor_baseline[1]) = BaselineReadings)
    /\ [][e_call'.name \in {"step", "get_state", "render"}
            => e_sensor_baseline' = e_sensor_baseline]_vars

Det3(R) ==
    R[1][1] * (R[2][2] * R[3][3] - R[2][3] * R[3][2])
      - R[1][2] * (R[2][1] * R[3][3] - R[2][3] * R[3][1])
      + R[1][3] * (R[2][1] * R[3][2] - R[2][2] * R[3][1])
Minor4(M, j) ==
    LET cols == IF j = 1 THEN <<2, 3, 4>> ELSE IF j = 2 THEN <<1, 3, 4>>
                ELSE IF j = 3 THEN <<1, 2, 4>> ELSE <<1, 2, 3>>
    IN  Det3([r \in 1..3 |-> [c \in 1..3 |-> M[r][cols[c]]]])
Det4(M) ==
    0 - M[4][1] * Minor4(M, 1) + M[4][2] * Minor4(M, 2)
      - M[4][3] * Minor4(M, 3) + M[4][4] * Minor4(M, 4)

\* a rigid transform: [R t; 0 0 0 1] with R a rotation
IsRigid(M) ==
    /\ M[4] = <<0, 0, 0, 1>>
    /\ Mat3Mul(RotBlock(M), RotBlock(Transpose(M))) = Identity3
    /\ Det3(RotBlock(M)) = 1

\* C17: for every invertible rigid init_affine, get_relative_affine(
\* init_affine, init_affine) returns the 4x4 identity: no rotation, no
\* translation.
C17_RelativeOfSelfIsIdentity ==
    a_pc = "returned" /\ IsRigid(a_init[1]) /\ Det4(a_init[1]) # 0
      /\ a_current = a_init
        => /\ a_error = "none"
           /\ a_result = Some(Identity4)

\* the call has returned for an initial pose that is both turned out of the
\* controller's rotations and shifted
C17_Witness ==
    /\ a_pc = "returned"
    /\ a_current = a_init
    /\ RotBlock(a_init[1]) = RotBlock(H_R_V)
    /\ TransBlock(a_init[1]) = <<MaxShift, 0 - MaxShift, 0>>
    /\ a_result = Some(Identity4)

\* C18 (as stated): get_relative_affine called with a singular init_affine
\* reports an error to its caller and returns no transform.
C18_SingularInitIsError ==
    a_pc = "returned" /\ Det4(a_init[1]) = 0
        => /\ a_error # "none"
           /\ a_result = None

\* C19: start_teleop is true exactly when init_affine is not None, at
\* construction and after every tick, and whenever the relative transform is
\* computed for an action init_affine is not None.
C19_TeleopIffInitAffine ==
    /\ start_teleop <=> init_affine # None
    /\ pc \in {"act_send", "act_recv"} /\ start_teleop
        => init_affine # None /\ controller_state # None

\* an action is in flight on a tick that began idle, after earlier ticks,
\* and whose sample, with the engage flag alone, engaged it at a pose away
\* from the origin
C19_Witness ==
    /\ pc = "act_recv"
    /\ ~was_engaged
    /\ prev_trigger # None
    /\ Sample.right_a
    /\ ~Sample.right_b
    /\ start_teleop
    /\ init_affine = Some(Sample.right_affine)
    /\ Sample.right_affine # Identity4

\* the sample of the current tick has both the engage and the disengage flag
BothFlags ==
    /\ controller_state # None
    /\ Sample.right_a
    /\ Sample.right_b

\* C20: when a sample has both flags, disengage wins: from HOMED_IDLE and
\* from ENGAGED alike the tick goes on HOMED_IDLE with init_affine cleared,
\* reads the robot state once more and sets HomePose from that read, and the
\* action it sends carries that HomePose as its target pose.
C20_DisengageWins ==
    /\ [](BothFlags /\ pc \in {"rehome", "act_send", "act_recv", "end_loop"}
            => ~start_teleop /\ init_affine = None)
    /\ [](BothFlags /\ pc \in {"act_send", "act_recv", "end_loop"}
            => state_reads = IF prev_trigger = None THEN 2 ELSE 1)
    /\ [](BothFlags /\ pc = "act_recv"
            => /\ ~Sent.reset
               /\ Sent.pos = home_pos[1]
               /\ quat2mat(Sent.quat) = home_rot[1])
    /\ [][BothFlags /\ pc = "flags" /\ exc' = "none" => pc' = "rehome"]_vars
    /\ [][BothFlags /\ pc = "rehome" /\ exc' = "none"
            => /\ pc' = "act_send"
               /\ state_reads' = state_reads + 1
               /\ \E rs \in RobotStates :
                      /\ home_pos' = Some(rs.pos)
                      /\ home_rot' = Some(quat2mat(rs.quat))]_vars

\* a tick that began ENGAGED got both flags and its action, carrying a
\* HomePose outside the workspace box, is in flight
C20_Witness ==
    /\ pc = "act_recv"
    /\ BothFlags
    /\ was_engaged
    /\ ~start_teleop
    /\ init_affine = None
    /\ Sent.pos = home_pos[1]
    /\ \E i \in 1..3 : ~InBox(home_pos[1], i)
====
